---- MODULE Spec2Model ----
(***************************************************************************)
(* Model of src/src/preprocessing.py, class AudioPreprocessor.             *)
(*                                                                         *)
(* A signal is a finite sequence of samples.  Samples are integers: one    *)
(* unit is 1e-8, the epsilon of normalize_audio, so that the quotient      *)
(* y / (max|y| + 1e-8) is an exact rational num/den.  Durations and        *)
(* stretch rates are rationals [num, den] with den > 0.                    *)
(*                                                                         *)
(* The DSP backend (librosa) is a black box.  The model keeps what its     *)
(* interface fixes: load either fails or yields the file's samples,        *)
(* time_stretch rejects rate <= 0 and yields round(len / rate) samples,    *)
(* pitch_shift yields len samples.  The sample values a DSP call produces  *)
(* are not fixed: each call distorts its input by a value of Distortion,   *)
(* 0 being an exact reconstruction.                                        *)
(***************************************************************************)
EXTENDS Integers, Sequences, FiniteSets

VARIABLES sr, op, args, result

vars == <<sr, op, args, result>>

----------------------------------------------------------------------------
(* Bounds of the model *)

MaxLen == 3
MaxSr == 3

(* Input domains *)

Samples == {-2, 0, 1}
Distortion == {0, 1}
Rat(n, d) == [num |-> n, den |-> d]
Durations == {Rat(1, 2), Rat(1, 1), Rat(3, 2), Rat(2, 1), Rat(5, 2)}
Rates == {Rat(-1, 1), Rat(0, 1), Rat(1, 2), Rat(1, 1), Rat(2, 1)}
Steps == {-12, 0, 7}
One == Rat(1, 1)

Signals == UNION {[1..n -> Samples] : n \in 0..MaxLen}
Silent(y) == \A i \in 1..Len(y) : y[i] = 0

Literals == {"none", "time_stretch", "pitch_shift", "pitch_then_time", "time_then_pitch"}
Techniques == Literals \cup {"bogus_value", "None", ""}

DSP == [stretch : Distortion, shift : Distortion]
NoDSP == [stretch |-> 0, shift |-> 0]

----------------------------------------------------------------------------
(* Errors, files, outcomes *)

Error(t, m) == [type |-> t, msg |-> m]
NoErr == Error("", <<>>)

DecodeFailures ==
    { Error("FileNotFoundError", <<"No such file or directory">>),
      Error("PermissionError", <<"Permission denied">>),
      Error("NoBackendError", <<>>) }

\* A file is what the decoder makes of it: a failure, or the samples it yields.
Files == { [ok |-> FALSE, err |-> e, samples |-> <<>>] : e \in DecodeFailures }
         \cup { [ok |-> TRUE, err |-> NoErr, samples |-> s] : s \in Signals }
NoFile == [ok |-> FALSE, err |-> NoErr, samples |-> <<>>]

\* One call of the backend: its function, its arguments (those it does not take
\* at their defaults) and what came back.
Call(fn, f, y, s, d, r, n, res) ==
    [fn |-> fn, file |-> f, y |-> y, sr |-> s, duration |-> d, rate |-> r, n_steps |-> n,
     ok |-> res.kind = "signal", out |-> res.sig]

Return(y, calls) == [kind |-> "signal", sig |-> y, norm |-> <<>>, err |-> NoErr, calls |-> calls]
Raise(e, calls) == [kind |-> "error", sig |-> <<>>, norm |-> <<>>, err |-> e, calls |-> calls]
NoResult == [kind |-> "none", sig |-> <<>>, norm |-> <<>>, err |-> NoErr, calls |-> <<>>]

----------------------------------------------------------------------------
(* Python and numpy primitives *)

Abs(x) == IF x < 0 THEN -x ELSE x

\* int(p/q), q > 0: truncation toward zero
PyInt(p, q) == IF p >= 0 THEN p \div q ELSE -((-p) \div q)

\* round(p/q), p >= 0, q > 0: to nearest, ties to even
PyRound(p, q) ==
    LET f == p \div q
        r == p % q
    IN  IF 2 * r < q THEN f
        ELSE IF 2 * r > q THEN f + 1
        ELSE IF f % 2 = 0 THEN f ELSE f + 1

\* Variant: the padding put before the samples
np_pad_front(y, n) == [i \in 1..n |-> 0] \o y

np_pad(y, n) == y \o [i \in 1..n |-> 0]

RECURSIVE np_max_abs(_)
np_max_abs(y) ==
    IF Len(y) = 1 THEN Abs(y[1])
    ELSE LET m == np_max_abs(Tail(y))
         IN  IF Abs(y[1]) > m THEN Abs(y[1]) ELSE m

----------------------------------------------------------------------------
(* The DSP backend *)

\* librosa.load(filepath, sr=sr, duration=duration)
librosa_load(f, s, duration) ==
    IF f.ok THEN Return(f.samples, <<>>) ELSE Raise(f.err, <<>>)

\* n samples taken from y, each moved by the call's distortion d
Reprocess(y, n, d) == [i \in 1..n |-> y[((i - 1) * Len(y)) \div n + 1] + d]

\* librosa.effects.time_stretch(y, rate=rate)
librosa_time_stretch(y, rate, d) ==
    IF rate.num <= 0
    THEN Raise(Error("ParameterError", <<"rate must be a positive number">>), <<>>)
    ELSE Return(Reprocess(y, PyRound(Len(y) * rate.den, rate.num), d), <<>>)

\* librosa.effects.pitch_shift(y, sr=sr, n_steps=n_steps)
librosa_pitch_shift(y, s, n_steps, d) == Return(Reprocess(y, Len(y), d), <<>>)

----------------------------------------------------------------------------
(* AudioPreprocessor *)

Epsilon == 1

\* Variant: the target rounded to nearest instead of truncated
target_length_rounded(s, duration) == PyRound(s * duration.num, duration.den)

target_length(s, duration) == PyInt(s * duration.num, duration.den)

\* Variant: the handler raises without the cause in its message
load_audio_no_cause(s, f, duration) ==
    LET r == librosa_load(f, s, duration)
        calls == <<Call("load", f, <<>>, s, duration, One, 0, r)>>
    IN  IF r.kind = "error"
        THEN Raise(Error("ValueError", <<"Error loading audio">>), calls)
        ELSE LET y == r.sig
                 t == PyInt(s * duration.num, duration.den)
             IN  IF Len(y) < t
                 THEN Return(y \o [i \in 1..(t - Len(y)) |-> 0], calls)
                 ELSE Return(SubSeq(y, 1, t), calls)

load_audio(s, f, duration) ==
    LET r == librosa_load(f, s, duration)
        calls == <<Call("load", f, <<>>, s, duration, One, 0, r)>>
    IN  IF r.kind = "error"
        THEN Raise(Error("ValueError", <<"Error loading audio: ">> \o r.err.msg), calls)
        ELSE LET y == r.sig
                 t == target_length(s, duration)
             IN  IF Len(y) < t
                 THEN Return(np_pad(y, t - Len(y)), calls)
                 ELSE Return(SubSeq(y, 1, t), calls)

\* Variant: a failure of the backend answered with the input
time_stretch_fallback(y, rate, dsp) ==
    LET r == librosa_time_stretch(y, rate, dsp.stretch)
        calls == <<Call("time_stretch", NoFile, y, 0, One, rate, 0, r)>>
    IN  IF r.kind = "error" THEN Return(y, calls) ELSE [r EXCEPT !.calls = calls]

time_stretch(y, rate, dsp) ==
    LET r == librosa_time_stretch(y, rate, dsp.stretch)
    IN  [r EXCEPT !.calls = <<Call("time_stretch", NoFile, y, 0, One, rate, 0, r)>>]

\* Variant: sr not passed on, the backend's default rate used
pitch_shift_default_sr(s, y, n_steps, dsp) ==
    LET r == librosa_pitch_shift(y, 22050, n_steps, dsp.shift)
    IN  [r EXCEPT !.calls = <<Call("pitch_shift", NoFile, y, 22050, One, One, n_steps, r)>>]

pitch_shift(s, y, n_steps, dsp) ==
    LET r == librosa_pitch_shift(y, s, n_steps, dsp.shift)
    IN  [r EXCEPT !.calls = <<Call("pitch_shift", NoFile, y, s, One, One, n_steps, r)>>]

\* Variant: the steps passed as the stretch rate
pitch_then_time_steps_as_rate(s, y, rate, n_steps, dsp) ==
    LET a == pitch_shift(s, y, n_steps, dsp)
    IN  IF a.kind = "error" THEN a
        ELSE LET b == time_stretch(a.sig, Rat(n_steps, 1), dsp)
             IN  [b EXCEPT !.calls = a.calls \o b.calls]

\* Variant: the stretch made on the input, not on the pitch-shifted signal
pitch_then_time_on_input(s, y, rate, n_steps, dsp) ==
    LET a == pitch_shift(s, y, n_steps, dsp)
    IN  IF a.kind = "error" THEN a
        ELSE LET b == time_stretch(y, rate, dsp)
             IN  [b EXCEPT !.calls = a.calls \o b.calls]

\* y = first(y); return second(y): a raise in the first statement ends the call
pitch_then_time(s, y, rate, n_steps, dsp) ==
    LET a == pitch_shift(s, y, n_steps, dsp)
    IN  IF a.kind = "error" THEN a
        ELSE LET b == time_stretch(a.sig, rate, dsp)
             IN  [b EXCEPT !.calls = a.calls \o b.calls]

time_then_pitch(s, y, rate, n_steps, dsp) ==
    LET a == time_stretch(y, rate, dsp)
    IN  IF a.kind = "error" THEN a
        ELSE LET b == pitch_shift(s, a.sig, n_steps, dsp)
             IN  [b EXCEPT !.calls = a.calls \o b.calls]

\* Variant: an unknown technique treated as 'none'
apply_preprocessing_fallback(s, y, technique, rate, n_steps, dsp) ==
    IF technique = "time_stretch" THEN time_stretch(y, rate, dsp)
    ELSE IF technique = "pitch_shift" THEN pitch_shift(s, y, n_steps, dsp)
    ELSE IF technique = "pitch_then_time" THEN pitch_then_time(s, y, rate, n_steps, dsp)
    ELSE IF technique = "time_then_pitch" THEN time_then_pitch(s, y, rate, n_steps, dsp)
    ELSE Return(y, <<>>)

\* Variant: 'none' sent through the chain with its (default) parameters
apply_preprocessing_none_chained(s, y, technique, rate, n_steps, dsp) ==
    IF technique = "time_stretch" THEN time_stretch(y, rate, dsp)
    ELSE IF technique = "pitch_shift" THEN pitch_shift(s, y, n_steps, dsp)
    ELSE IF technique \in {"none", "pitch_then_time"} THEN pitch_then_time(s, y, rate, n_steps, dsp)
    ELSE IF technique = "time_then_pitch" THEN time_then_pitch(s, y, rate, n_steps, dsp)
    ELSE Raise(Error("ValueError", <<"Unknown technique: ", technique>>), <<>>)

apply_preprocessing(s, y, technique, rate, n_steps, dsp) ==
    IF technique = "none" THEN Return(y, <<>>)
    ELSE IF technique = "time_stretch" THEN time_stretch(y, rate, dsp)
    ELSE IF technique = "pitch_shift" THEN pitch_shift(s, y, n_steps, dsp)
    ELSE IF technique = "pitch_then_time" THEN pitch_then_time(s, y, rate, n_steps, dsp)
    ELSE IF technique = "time_then_pitch" THEN time_then_pitch(s, y, rate, n_steps, dsp)
    ELSE Raise(Error("ValueError", <<"Unknown technique: ", technique>>), <<>>)

\* numpy true division: x/0 is nan or inf (a warning, no exception)
np_divide(v, d) ==
    IF d = 0 THEN [kind |-> IF v = 0 THEN "nan" ELSE "inf", num |-> v, den |-> 0]
    ELSE [kind |-> "num", num |-> v, den |-> d]

\* Variant: the peak taken without the epsilon
normalize_audio_no_epsilon(y) ==
    IF Len(y) = 0
    THEN Raise(Error("ValueError", <<"zero-size array to reduction operation maximum">>), <<>>)
    ELSE LET peak == np_max_abs(y)
         IN  [kind |-> "signal", sig |-> <<>>, err |-> NoErr, calls |-> <<>>,
              norm |-> [i \in 1..Len(y) |-> np_divide(y[i], peak)]]

normalize_audio(y) ==
    IF Len(y) = 0
    THEN Raise(Error("ValueError", <<"zero-size array to reduction operation maximum">>), <<>>)
    ELSE LET peak == np_max_abs(y) + Epsilon
         IN  [kind |-> "signal", sig |-> <<>>, err |-> NoErr, calls |-> <<>>,
              norm |-> [i \in 1..Len(y) |-> np_divide(y[i], peak)]]

----------------------------------------------------------------------------
(* The instance and its calls *)

Args(f, d, y, t, r, n, dsp) ==
    [file |-> f, duration |-> d, y |-> y, technique |-> t, rate |-> r, n_steps |-> n, dsp |-> dsp]
NoArgs == Args(NoFile, One, <<>>, "", One, 0, NoDSP)

\* __init__(sr): self.sr = sr
Init ==
    /\ sr \in 1..MaxSr
    /\ op = "idle"
    /\ args = NoArgs
    /\ result = NoResult

LoadAudio ==
    /\ op = "idle"
    /\ \E f \in Files, d \in Durations :
           /\ op' = "load_audio"
           /\ args' = Args(f, d, <<>>, "", One, 0, NoDSP)
           /\ result' = load_audio(sr, f, d)
           /\ UNCHANGED sr

TimeStretch ==
    /\ op = "idle"
    /\ \E y \in Signals, r \in Rates, dsp \in DSP :
           /\ dsp.shift = 0
           /\ op' = "time_stretch"
           /\ args' = Args(NoFile, One, y, "", r, 0, dsp)
           /\ result' = time_stretch(y, r, dsp)
           /\ UNCHANGED sr

PitchShift ==
    /\ op = "idle"
    /\ \E y \in Signals, n \in Steps, dsp \in DSP :
           /\ dsp.stretch = 0
           /\ op' = "pitch_shift"
           /\ args' = Args(NoFile, One, y, "", One, n, dsp)
           /\ result' = pitch_shift(sr, y, n, dsp)
           /\ UNCHANGED sr

ApplyPreprocessing ==
    /\ op = "idle"
    /\ \E y \in Signals, t \in Techniques, r \in Rates, n \in Steps, dsp \in DSP :
           /\ op' = "apply_preprocessing"
           /\ args' = Args(NoFile, One, y, t, r, n, dsp)
           /\ result' = apply_preprocessing(sr, y, t, r, n, dsp)
           /\ UNCHANGED sr

NormalizeAudio ==
    /\ op = "idle"
    /\ \E y \in Signals :
           /\ op' = "normalize_audio"
           /\ args' = Args(NoFile, One, y, "", One, 0, NoDSP)
           /\ result' = normalize_audio(y)
           /\ UNCHANGED sr

\* The caller takes the returned signal or the raised exception; the instance
\* is ready for its next call.
TakeResult ==
    /\ op # "idle"
    /\ op' = "idle"
    /\ args' = NoArgs
    /\ result' = NoResult
    /\ UNCHANGED sr

Next ==
    \/ LoadAudio
    \/ TimeStretch
    \/ PitchShift
    \/ ApplyPreprocessing
    \/ NormalizeAudio
    \/ TakeResult

Spec == Init /\ [][Next]_vars

----------------------------------------------------------------------------
(* What a completed call shows *)

Returned == result.kind = "signal"
Raised == result.kind = "error"

\* e occurs in m as a contiguous run
Contains(m, e) == \E k \in 0..(Len(m) - Len(e)) : SubSeq(m, k + 1, k + Len(e)) = e

\* The error taxonomy, as the code realises it: load_audio and the dispatch
\* raise ValueError with a fixed prefix, a bad rate is rejected by the backend.
LoadError(e) == e.type = "ValueError" /\ Len(e.msg) >= 1 /\ e.msg[1] = "Error loading audio: "
UnknownTechniqueError(e) == e.type = "ValueError" /\ Len(e.msg) >= 1 /\ e.msg[1] = "Unknown technique: "
InvalidParameterError(e) == e.type = "ParameterError"

----------------------------------------------------------------------------
(* C1, as stated: a successful load_audio returns exactly round(sr * duration)
   samples. *)
C1_LengthIsRounded ==
    (op = "load_audio" /\ Returned) =>
        Len(result.sig) = PyRound(sr * args.duration.num, args.duration.den)

(* C1, amended: a successful load_audio returns exactly floor(sr * duration)
   samples, the product truncated to an integer, whatever the decoded length:
   n <= sr * duration < n + 1 for the returned length n. *)
C1_LengthIsTruncated ==
    (op = "load_audio" /\ Returned) =>
        LET n == Len(result.sig)
        IN  /\ n * args.duration.den <= sr * args.duration.num
            /\ sr * args.duration.num < (n + 1) * args.duration.den

\* a shorter source padded to a target where truncating and rounding differ
C1_Witness ==
    /\ op = "load_audio" /\ Returned
    /\ Len(args.file.samples) < Len(result.sig)
    /\ Len(result.sig) # PyRound(sr * args.duration.num, args.duration.den)

(* C9: load_audio keeps the decoded samples in place.  With n decoded samples
   and target t: if n < t the result is the n samples followed by t - n zeros,
   otherwise it is the first t decoded samples. *)
C9_SamplesInPlace ==
    (op = "load_audio" /\ args.file.ok) =>
        LET d == args.file.samples
            n == Len(d)
            t == Len(result.sig)
        IN  /\ Returned
            /\ t = target_length(sr, args.duration)
            /\ \A i \in 1..t : result.sig[i] = IF i <= n THEN d[i] ELSE 0

\* a non-silent source, shorter than the target, padded
C9_Witness ==
    /\ op = "load_audio" /\ Returned
    /\ Len(args.file.samples) >= 1
    /\ args.file.samples[1] # 0
    /\ Len(args.file.samples) < Len(result.sig)

\* a source longer than the target, trimmed
C9_WitnessTrim ==
    /\ op = "load_audio" /\ Returned
    /\ Len(result.sig) >= 1
    /\ Len(args.file.samples) > Len(result.sig)

(* C4: when the decode fails, load_audio raises its load error, whose message
   contains the message of the underlying failure; no signal is returned and
   the decode is called once, with no retry and no recovery. *)
C4_LoadErrorWrapsCause ==
    (op = "load_audio" /\ ~args.file.ok) =>
        /\ Raised
        /\ LoadError(result.err)
        /\ Contains(result.err.msg, args.file.err.msg)
        /\ result.sig = <<>>
        /\ Len(result.calls) = 1
        /\ result.calls[1].fn = "load"

\* a missing file: the decode failed with a message
C4_Witness ==
    /\ op = "load_audio" /\ Raised
    /\ ~args.file.ok
    /\ args.file.err.type = "FileNotFoundError"
    /\ Len(args.file.err.msg) >= 1

(* C2: a technique outside the five literals makes apply_preprocessing raise
   its unknown-technique error, whatever time_stretch_rate and
   pitch_shift_steps are; no signal is returned and the backend is not
   called. *)
C2_UnknownTechniqueRejected ==
    (op = "apply_preprocessing" /\ args.technique \notin Literals) =>
        /\ Raised
        /\ UnknownTechniqueError(result.err)
        /\ result.err.msg[2] = args.technique
        /\ result.sig = <<>>
        /\ result.calls = <<>>

\* an unknown technique, with a rate that time_stretch would reject
C2_Witness ==
    /\ op = "apply_preprocessing" /\ Raised
    /\ args.technique = "bogus_value"
    /\ args.rate.num <= 0
    /\ args.n_steps # 0
    /\ Len(args.y) >= 1

(* C3: time_stretch(signal, rate) with rate <= 0 fails with the
   invalid-parameter error for every signal, and returns no signal. *)
C3_NonPositiveRateRejected ==
    (op = "time_stretch" /\ args.rate.num <= 0) =>
        /\ Raised
        /\ InvalidParameterError(result.err)
        /\ result.sig = <<>>

\* a negative rate on a non-empty signal
C3_Witness ==
    /\ op = "time_stretch" /\ Raised
    /\ args.rate.num < 0
    /\ Len(args.y) >= 1

(* C5: apply_preprocessing(y, 'none', r, s) returns y itself for every y, r
   and s, and makes no backend call. *)
C5_NoneIsIdentity ==
    (op = "apply_preprocessing" /\ args.technique = "none") =>
        /\ Returned
        /\ result.sig = args.y
        /\ result.calls = <<>>

\* 'none' with a rate time_stretch would reject and a distorting backend
C5_Witness ==
    /\ op = "apply_preprocessing" /\ Returned
    /\ args.technique = "none"
    /\ args.rate.num <= 0
    /\ args.dsp.stretch # 0
    /\ \E i \in 1..Len(args.y) : args.y[i] # 0

\* the cascaded techniques called with rate = 1.0 and steps = 0
Degenerate ==
    /\ op = "apply_preprocessing"
    /\ args.technique \in {"pitch_then_time", "time_then_pitch"}
    /\ args.rate.num = args.rate.den
    /\ args.n_steps = 0

(* C6, as stated: with time_stretch_rate = 1.0 and pitch_shift_steps = 0 both
   cascaded techniques return a signal equal to y. *)
C6_DegenerateEqualsInput == Degenerate => (Returned /\ result.sig = args.y)

(* C6, amended: with time_stretch_rate = 1.0 and pitch_shift_steps = 0 both
   cascaded techniques still run y through the two backend calls and return
   the second call's output: a signal of the same length as y, whose samples
   are the backend's and need not equal those of y. *)
C6_DegenerateKeepsLength ==
    Degenerate =>
        /\ Returned
        /\ Len(result.sig) = Len(args.y)
        /\ Len(result.calls) = 2
        /\ result.sig = result.calls[2].out

\* degenerate parameters, and the backend's output differs from y
C6_Witness ==
    /\ Degenerate /\ Returned
    /\ Len(args.y) >= 1
    /\ result.sig # args.y

(* C7: normalize_audio(y), for y of length >= 1, returns a signal of the length
   of y; every sample is a finite quotient of absolute value at most 1; for
   an all-zero y every sample is zero, with a non-zero divisor. *)
C7_NormalizedWithinUnit ==
    (op = "normalize_audio" /\ Len(args.y) >= 1) =>
        /\ Returned
        /\ Len(result.norm) = Len(args.y)
        /\ \A i \in 1..Len(result.norm) :
              /\ result.norm[i].kind = "num"
              /\ result.norm[i].den > 0
              /\ Abs(result.norm[i].num) <= result.norm[i].den
              /\ result.norm[i].num = args.y[i]
        /\ Silent(args.y) => \A i \in 1..Len(result.norm) : result.norm[i].num = 0

\* an all-zero signal normalised
C7_Witness ==
    /\ op = "normalize_audio" /\ Returned
    /\ Len(args.y) >= 2
    /\ Silent(args.y)

\* a non-silent signal normalised
C7_WitnessLoud ==
    /\ op = "normalize_audio" /\ Returned
    /\ \E i \in 1..Len(args.y) : args.y[i] # 0

\* the calls a cascaded technique makes: first, then second on first's output;
\* a raise in the first call ends the chain
Cascade(first, second) ==
    LET c == result.calls
    IN  /\ Len(c) \in {1, 2}
        /\ c[1].fn = first
        /\ c[1].y = args.y
        /\ Len(c) = 2 <=> c[1].ok
        /\ Len(c) = 2 =>
              /\ c[2].fn = second
              /\ c[2].y = c[1].out
              /\ Returned <=> c[2].ok
              /\ Returned => result.sig = c[2].out
        /\ \A i \in 1..Len(c) :
              /\ c[i].fn = "time_stretch" => c[i].rate = args.rate
              /\ c[i].fn = "pitch_shift" => c[i].n_steps = args.n_steps /\ c[i].sr = sr

(* C8: 'pitch_then_time' calls pitch_shift on the input and then time_stretch
   on the pitch-shifted result; 'time_then_pitch' calls time_stretch on the
   input and then pitch_shift on the stretched result.  These are the only
   backend calls, in this order, the second on the first's output, and the
   signal returned is the second call's output. *)
C8_CascadeOrder ==
    /\ (op = "apply_preprocessing" /\ args.technique = "pitch_then_time") =>
          Cascade("pitch_shift", "time_stretch")
    /\ (op = "apply_preprocessing" /\ args.technique = "time_then_pitch") =>
          Cascade("time_stretch", "pitch_shift")

\* pitch_then_time returned, and its first call changed the signal
C8_Witness ==
    /\ op = "apply_preprocessing" /\ Returned
    /\ args.technique = "pitch_then_time"
    /\ Len(result.calls) = 2
    /\ result.calls[1].out # args.y
    /\ Len(result.sig) # Len(args.y)

\* time_then_pitch returned, and its first call changed the length
C8_WitnessTimeFirst ==
    /\ op = "apply_preprocessing" /\ Returned
    /\ args.technique = "time_then_pitch"
    /\ Len(result.calls[2].y) # Len(args.y)

(* C10: no call, returning or raising, changes the instance's sr, and every
   backend decode and pitch_shift call it makes is given that sr. *)
C10_SrImmutable ==
    [][ /\ sr' = sr
        /\ \A i \in 1..Len(result'.calls) :
              result'.calls[i].fn \in {"load", "pitch_shift"} => result'.calls[i].sr = sr
      ]_vars

\* a cascaded call on an instance whose sr is not the smallest
C10_Witness ==
    /\ op = "apply_preprocessing" /\ Returned
    /\ args.technique = "time_then_pitch"
    /\ sr > 1
    /\ result.calls[2].sr = sr

====
